---- MODULE Spec2Model ----
(***************************************************************************)
(* Transcript normalization, content selection, script assembly, segment   *)
(* partitioning and temporary files of talking_head.                       *)
(*                                                                         *)
(* Segments are Python dicts: here functions whose DOMAIN is the set of    *)
(* keys present ("id", "start", "end", "text", "score").  Times are whole  *)
(* multiples of a time unit.  In the selection functions the unit is one   *)
(* second and the float multipliers (1.2, 1.3, 1.4, 0.8) are kept exact by *)
(* cross-multiplying: a target handed to a helper is carried in tenths of  *)
(* a second (targetX10), so 1.3 * (1.3 * T) is 169 * T / 100.  In the      *)
(* partitioner the quotient total_duration / num_videos is a rounded       *)
(* float; the variable fp carries how it rounded.                          *)
(***************************************************************************)
EXTENDS Integers, Sequences, FiniteSets, TLC

VARIABLES
    transcript,   \* select_key_moments / _select_by_duration argument
    target,       \* target_duration, whole seconds
    pc,           \* "ready", then the name of the function that has returned
    result,       \* list returned by the selection function that ran
    trace,        \* locals of select_key_moments at return
    oracle,       \* outcome the summarization oracle had (or would have had) in the call
    oracleCalls,  \* number of times the summarization oracle was consulted
    segments,     \* _divide_segments_for_multiple_videos argument
    numVideos,    \* num_videos argument
    groups,       \* list of groups returned
    fp,           \* how the float quotient total_duration / num_videos rounds in the call
    fillers,      \* remove_filler_words argument filler_words
    nlp,          \* "loaded" or "failed": whether spacy.load gave a model
    once,         \* list remove_filler_words returned for transcript
    twice,        \* list remove_filler_words returned for its own output
    selection,    \* the list generate_script is given, with its records as they are in memory
    refiner,      \* reply of the refinement oracle in the call
    script,       \* script generate_script returned
    runs,         \* the pipeline runs: where each stands and what it has transcribed
    files,        \* the temporary directory shared by the runs
    tasks,        \* the in-memory task storage of the videos router
    outputs,      \* the output directory of each task
    response      \* the last response of the videos router

selectVars == <<transcript, target, result, trace, oracle, oracleCalls>>

divideVars == <<segments, numVideos, groups, fp>>

normalizeVars == <<fillers, nlp, once, twice>>

scriptVars == <<selection, refiner, script>>

vars == <<transcript, target, pc, result, trace, oracle, oracleCalls, segments, numVideos, groups, fp,
          fillers, nlp, once, twice, selection, refiner, script, runs, files,
          tasks, outputs, response>>

runVars == <<runs, files>>

taskVars == <<tasks, outputs, response>>

----------------------------------------------------------------------------
(* Bounds of the explored inputs *)

MaxSegs == 3
MaxDur == 3
MaxTotalDur == 6
MaxTarget == 4
MaxStart == 2
MaxPerGroup == 3
MaxDivDur == 4
MaxNormSegs == 2
MaxTokens == 3
MaxFillers == 2
MaxScriptSegs == 2
MaxScriptDur == 3
MaxSpans == 3
MaxChars == 3
HalfBits == 3
MaxChunks == 3
MaxTasks == 1
MaxTaskVideos == 2

Vocab == {"a", "b"}

----------------------------------------------------------------------------
(* Segment helpers *)

HasTiming(s) == "start" \in DOMAIN s /\ "end" \in DOMAIN s

HasText(s) == "text" \in DOMAIN s

HasId(s) == "id" \in DOMAIN s

Dur(s) == s["end"] - s["start"]

\* sum(seg['end'] - seg['start'] for seg in l if 'end' in seg and 'start' in seg)
RECURSIVE SumDur(_)
SumDur(l) ==
    IF l = <<>> THEN 0
    ELSE (IF HasTiming(Head(l)) THEN Dur(Head(l)) ELSE 0) + SumDur(Tail(l))

\* x['id'] if 'id' in x else 0
IdKey(s) == IF HasId(s) THEN s["id"] ELSE 0

Ids(l) == {l[i]["id"] : i \in {j \in DOMAIN l : HasId(l[j])}}

\* list.sort(key=...): stable, ascending in the key
StableSortByKey(l, keys) ==
    LET n == Len(l)
        pos(i) == 1 + Cardinality({j \in 1..n :
                        keys[j] < keys[i] \/ (keys[j] = keys[i] /\ j < i)})
    IN  [k \in 1..n |-> l[CHOOSE i \in 1..n : pos(i) = k]]

\* the sort by original position left out
SortByIdNone(l) == l

SortById(l) == StableSortByKey(l, [i \in DOMAIN l |-> IdKey(l[i])])

\* a sort that puts the shortest segment first
SortByDurationAsc(l) == StableSortByKey(l, [i \in DOMAIN l |-> Dur(l[i])])

\* sort(key=duration, reverse=True): stable, longest first
SortByDurationDesc(l) == StableSortByKey(l, [i \in DOMAIN l |-> 0 - Dur(l[i])])

----------------------------------------------------------------------------
(* _select_by_duration *)

\* max_allowed_duration = target_duration * 1.3, in hundredths per tenth
DurationCapPct == 13

\* the fill held to the target itself, without the 30% allowance
RECURSIVE DurationFillNoAllowance(_, _, _, _)
DurationFillNoAllowance(l, selected, current, targetX10) ==
    IF l = <<>> THEN selected
    ELSE LET seg == Head(l)
             d   == Dur(seg)
         IN  IF 10 * (current + d) <= targetX10
             THEN DurationFillNoAllowance(Tail(l), Append(selected, seg), current + d, targetX10)
             ELSE DurationFillNoAllowance(Tail(l), selected, current, targetX10)

RECURSIVE DurationFill(_, _, _, _)
DurationFill(l, selected, current, targetX10) ==
    IF l = <<>> THEN selected
    ELSE LET seg == Head(l)
             d   == Dur(seg)
         IN  IF 100 * (current + d) <= DurationCapPct * targetX10
             THEN DurationFill(Tail(l), Append(selected, seg), current + d, targetX10)
             ELSE DurationFill(Tail(l), selected, current, targetX10)

\* the selection left in longest-first order
SelectByDurationUnsorted(t, targetX10) ==
    IF t = <<>> THEN <<>>
    ELSE LET timed == SelectSeq(t, HasTiming)
         IN  IF SumDur(timed) = 0 THEN t
             ELSE DurationFill(SortByDurationDesc(timed), <<>>, 0, targetX10)

SelectByDuration(t, targetX10) ==
    IF t = <<>> THEN <<>>
    ELSE LET timed == SelectSeq(t, HasTiming)
         IN  IF SumDur(timed) = 0 THEN t
             ELSE SortById(DurationFill(SortByDurationDesc(timed), <<>>, 0, targetX10))

----------------------------------------------------------------------------
(* _select_by_text_importance *)

Words(text) == {text[i] : i \in DOMAIN text}

Max(a, b) == IF a >= b THEN a ELSE b

\* segment_copy['score'] = overlap / max(1, len(segment_words)), as a fraction
ScoreOf(s, summaryWords) ==
    [num |-> Cardinality(Words(s["text"]) \cap summaryWords),
     den |-> Max(1, Cardinality(Words(s["text"])))]

WithScore(s, summaryWords) ==
    [k \in DOMAIN s \cup {"score"} |->
        IF k = "score" THEN ScoreOf(s, summaryWords) ELSE s[k]]

ScoreGreater(x, y) == x.num * y.den > y.num * x.den

\* a sort by score that puts the later of two equal-score segments first
SortByScoreDescTiesLast(l) ==
    StableSortByKey(l, [i \in DOMAIN l |->
        (Len(l) + 1) * Cardinality({j \in DOMAIN l : ScoreGreater(l[j]["score"], l[i]["score"])})
            + (Len(l) - i)])

\* sort(key=score, reverse=True): stable, highest score first
SortByScoreDesc(l) ==
    StableSortByKey(l, [i \in DOMAIN l |->
        Cardinality({j \in DOMAIN l : ScoreGreater(l[j]["score"], l[i]["score"])})])

\* allowed_duration = target_duration * 1.2
TextCapPct == 12

\* segments without timestamps left out instead of included
RECURSIVE TextFillSkipUntimed(_, _, _, _)
TextFillSkipUntimed(l, final, current, targetX10) ==
    IF l = <<>> THEN final
    ELSE LET seg == Head(l) IN
         IF HasTiming(seg) /\ 100 * (current + Dur(seg)) <= 12 * targetX10
         THEN TextFillSkipUntimed(Tail(l), Append(final, seg), current + Dur(seg), targetX10)
         ELSE TextFillSkipUntimed(Tail(l), final, current, targetX10)

RECURSIVE TextFill(_, _, _, _)
TextFill(l, final, current, targetX10) ==
    IF l = <<>> THEN final
    ELSE LET seg == Head(l) IN
         IF HasTiming(seg)
         THEN IF 100 * (current + Dur(seg)) <= TextCapPct * targetX10
              THEN TextFill(Tail(l), Append(final, seg), current + Dur(seg), targetX10)
              ELSE TextFill(Tail(l), final, current, targetX10)
         ELSE TextFill(Tail(l), Append(final, seg), current, targetX10)

\* the except branch without its fallback: nothing is selected when the oracle fails
SelectByTextImportanceNoFallback(t, targetX10, o) ==
    IF ~o.ok THEN <<>>
    ELSE LET withText == SelectSeq(t, HasText)
             scored   == [i \in DOMAIN withText |-> WithScore(withText[i], o.summary)]
         IN  SortById(TextFill(SortByScoreDesc(scored), <<>>, 0, targetX10))

\* o = [ok |-> FALSE] : pipeline()/summarizer raised, the except branch runs
\* o = [ok |-> TRUE, summary |-> W] : W is the word set of combined_summary
SelectByTextImportance(t, targetX10, o) ==
    IF ~o.ok THEN SelectByDuration(t, targetX10)
    ELSE LET withText == SelectSeq(t, HasText)
             scored   == [i \in DOMAIN withText |-> WithScore(withText[i], o.summary)]
         IN  SortById(TextFill(SortByScoreDesc(scored), <<>>, 0, targetX10))

----------------------------------------------------------------------------
(* _select_additional_content *)

Abs(x) == IF x < 0 THEN 0 - x ELSE x

\* max_allowed = remaining_duration * 1.4
AdditionalCapTenths == 14

\* the top-up without its allowance test: every available segment is added
RECURSIVE AdditionalFillNoCap(_, _, _, _)
AdditionalFillNoCap(l, additional, current, remaining) ==
    IF l = <<>> THEN additional
    ELSE AdditionalFillNoCap(Tail(l), Append(additional, Head(l)), current + Dur(Head(l)), remaining)

RECURSIVE AdditionalFill(_, _, _, _)
AdditionalFill(l, additional, current, remaining) ==
    IF l = <<>> THEN additional
    ELSE LET seg == Head(l)
             d   == Dur(seg)
         IN  IF 10 * (current + d) <= AdditionalCapTenths * remaining
             THEN AdditionalFill(Tail(l), Append(additional, seg), current + d, remaining)
             ELSE AdditionalFill(Tail(l), additional, current, remaining)

\* the candidates of the top-up without the test on the ids already selected
AvailableAny(t, usedIds) ==
    LET ok(s) == HasId(s) /\ HasTiming(s)
    IN  SelectSeq(t, ok)

Available(t, usedIds) ==
    LET ok(s) == HasId(s) /\ s["id"] \notin usedIds /\ HasTiming(s)
    IN  SelectSeq(t, ok)

SelectAdditionalContent(t, remaining, usedIds) ==
    LET available == Available(t, usedIds)
        sorted    == StableSortByKey(available,
                        [i \in DOMAIN available |-> Abs(remaining - Dur(available[i]))])
    IN  AdditionalFill(sorted, <<>>, 0, remaining)

----------------------------------------------------------------------------
(* select_key_moments *)

\* adjusted_target = target_duration * 1.3, in tenths
AdjustTenths == 13

\* current_duration + segment_duration <= target_duration * 1.4
MergeCapTenths == 14

\* actual_duration < target_duration * 0.8
UnderfillTenths == 8

\* the merge without the 140% test
RECURSIVE MergeLoopNoCap(_, _, _, _)
MergeLoopNoCap(byDuration, final, ids, T) ==
    IF byDuration = <<>> THEN [final |-> final, ids |-> ids]
    ELSE LET seg == Head(byDuration) IN
         IF HasId(seg) /\ seg["id"] \notin ids
         THEN MergeLoopNoCap(Tail(byDuration), Append(final, seg), ids \cup {seg["id"]}, T)
         ELSE MergeLoopNoCap(Tail(byDuration), final, ids, T)

RECURSIVE MergeLoop(_, _, _, _)
MergeLoop(byDuration, final, ids, T) ==
    IF byDuration = <<>> THEN [final |-> final, ids |-> ids]
    ELSE LET seg == Head(byDuration) IN
         IF HasId(seg) /\ seg["id"] \notin ids
            /\ 10 * (SumDur(final) + Dur(seg)) <= MergeCapTenths * T
         THEN MergeLoop(Tail(byDuration), Append(final, seg), ids \cup {seg["id"]}, T)
         ELSE MergeLoop(Tail(byDuration), final, ids, T)

AllTimed(t) == \A i \in DOMAIN t : HasTiming(t[i])

\* the short-circuit test with < for <=
FitsTargetStrict(total, T) == total < T

\* total_duration <= target_duration
FitsTarget(total, T) == total <= T

NoTrace == [path |-> "none", byText |-> <<>>, byDuration |-> <<>>,
            merged |-> <<>>, additional |-> <<>>, calls |-> 0]

SelectKeyMoments(t, T, o) ==
    IF ~AllTimed(t)
    THEN [NoTrace EXCEPT !.path = "text_only", !.calls = 1,
                         !.merged = SelectByTextImportance(t, 10 * T, o)]
    ELSE IF FitsTarget(SumDur(t), T)
    THEN [NoTrace EXCEPT !.path = "short_circuit", !.merged = t]
    ELSE LET byText     == SelectByTextImportance(t, AdjustTenths * T, o)
             byDuration == SelectByDuration(t, AdjustTenths * T)
             m          == MergeLoop(byDuration, byText, Ids(byText), T)
             merged     == SortById(m.final)
             actual     == SumDur(merged)
         IN  IF 10 * actual < UnderfillTenths * T /\ actual > 0
             THEN [path |-> "top_up", byText |-> byText, byDuration |-> byDuration,
                   merged |-> merged, calls |-> 1,
                   additional |-> SelectAdditionalContent(t, T - actual, m.ids)]
             ELSE [path |-> "merge", byText |-> byText, byDuration |-> byDuration,
                   merged |-> merged, calls |-> 1, additional |-> <<>>]

\* the list select_key_moments returns
Returned(tr) ==
    IF tr.path = "top_up" THEN SortById(tr.merged \o tr.additional) ELSE tr.merged

----------------------------------------------------------------------------
(* _divide_segments_for_multiple_videos *)

\* num_videos = max(1, min(5, num_videos))
MaxVideos == 5

\* the sort by start time left out
SortByStartNone(l) == l

SortByStart(l) == StableSortByKey(l, [i \in DOMAIN l |-> l[i]["start"]])

\* the test made on the group as it stands, before the segment is counted
ExceedsTargetBefore(current, d, total, n, f) ==
    \/ n * current > total
    \/ f = "low" /\ n * current = total

\* current_duration + segment_duration > total_duration / num_videos
\* The times are Python floats: whole multiples of a time unit here.  With f = "exact"
\* (e.g. a unit of 1 s) sums and quotient carry no rounding error.  With f = "low" the
\* quotient is rounded below a running sum that equals it in exact arithmetic, as in
\* 0.7 + 0.7 + 0.7 = 2.0999999999999996, / 3 = 0.6999999999999998 < 0.7.
ExceedsTarget(current, d, total, n, f) ==
    \/ n * (current + d) > total
    \/ f = "low" /\ n * (current + d) = total

\* <<num_videos, m>> for which IEEE doubles round the quotient low on m segments of one
\* equal length d: 3 x 0.7 s (starts 0.34, 1.04, 1.74), 9 x 3.66 s (starts 0.34, 4.0, ...),
\* 5 x 7.8 s.  Dividing by a power of two is exact and never rounds.
RoundsLowCases == {<<3, 3>>, <<3, 9>>, <<5, 5>>}

EqualDurations(l) == \A i, j \in DOMAIN l : Dur(l[i]) = Dur(l[j])

FloatOutcomes(segs, n) ==
    LET valid == SelectSeq(segs, HasTiming) IN
    IF EqualDurations(valid) /\ <<n, Len(valid)>> \in RoundsLowCases
    THEN {"exact", "low"} ELSE {"exact"}

\* the segment that opens a new group is not added to it
RECURSIVE DivideLoopDrop(_, _, _, _, _, _, _)
DivideLoopDrop(valid, gs, currentGroup, current, total, n, f) ==
    IF valid = <<>> THEN gs
    ELSE LET seg     == Head(valid)
             d       == Dur(seg)
             advance == (n * (current + d) > total \/ (f = "low" /\ n * (current + d) = total))
                        /\ currentGroup < n - 1
         IN  IF advance
             THEN DivideLoopDrop(Tail(valid), gs, currentGroup + 1, 0, total, n, f)
             ELSE DivideLoopDrop(Tail(valid), [gs EXCEPT ![currentGroup + 1] = Append(@, seg)],
                                 currentGroup, current + d, total, n, f)

\* gs[g + 1] is segment_groups[g]; currentGroup counts from 0 as in the code
RECURSIVE DivideLoop(_, _, _, _, _, _, _)
DivideLoop(valid, gs, currentGroup, current, total, n, f) ==
    IF valid = <<>> THEN gs
    ELSE LET seg     == Head(valid)
             d       == Dur(seg)
             advance == ExceedsTarget(current, d, total, n, f) /\ currentGroup < n - 1
             g       == IF advance THEN currentGroup + 1 ELSE currentGroup
             c       == IF advance THEN 0 ELSE current
         IN  DivideLoop(Tail(valid), [gs EXCEPT ![g + 1] = Append(@, seg)],
                        g, c + d, total, n, f)

NonEmpty(g) == g # <<>>

\* no group at all, instead of one empty group, when no segment has timing
DivideSegmentsNoGroup(segs, n, f) ==
    IF n <= 1 THEN <<segs>>
    ELSE LET valid == SelectSeq(segs, HasTiming) IN
         IF valid = <<>> THEN <<>>
         ELSE LET sorted == SortByStart(valid)
                  filled == DivideLoop(sorted, [g \in 1..n |-> <<>>], 0, 0, SumDur(sorted), n, f)
              IN  SelectSeq(filled, NonEmpty)

DivideSegments(segs, n, f) ==
    IF n <= 1 THEN <<segs>>
    ELSE LET valid == SelectSeq(segs, HasTiming) IN
         IF valid = <<>> THEN << <<>> >>
         ELSE LET sorted == SortByStart(valid)
                  filled == DivideLoop(sorted, [g \in 1..n |-> <<>>], 0, 0, SumDur(sorted), n, f)
              IN  SelectSeq(filled, NonEmpty)

----------------------------------------------------------------------------
(* remove_filler_words *)

\* A text is the sequence of its tokens, taken as one sentence of the document; a filler
\* is the sequence of words filler.split() gives (<<>> for an empty string).

\* str.lower() of a token
Lower(tok) == IF tok = "Um" THEN "um" ELSE tok

LowerAll(ws) == [j \in DOMAIN ws |-> Lower(ws[j])]

\* filler_patterns = [w.lower().strip() for w in filler_words]
FillerPatterns(fw) == [f \in DOMAIN fw |-> LowerAll(fw[f])]

\* the test of one pattern at token i of the sentence
MatchesAt(sent, i, filler) ==
    IF Len(filler) > 1
    THEN /\ i + Len(filler) - 1 <= Len(sent)
         /\ \A j \in DOMAIN filler : Lower(sent[i + j - 1]) = filler[j]
    ELSE Len(filler) = 1 /\ Lower(sent[i]) = filler[1]

\* the first pattern, in list order, that matches at token i; 0 when none does
FirstMatch(sent, i, patterns) ==
    LET hits == {f \in DOMAIN patterns : MatchesAt(sent, i, patterns[f])}
    IN  IF hits = {} THEN 0 ELSE CHOOSE f \in hits : \A g \in hits : f <= g

\* the while loop over one sentence: the tokens kept, from token i on
RECURSIVE CleanSent(_, _, _)
CleanSent(sent, i, patterns) ==
    IF i > Len(sent) THEN <<>>
    ELSE LET f == FirstMatch(sent, i, patterns) IN
         IF f = 0 THEN <<sent[i]>> \o CleanSent(sent, i + 1, patterns)
         ELSE CleanSent(sent, i + Len(patterns[f]), patterns)

\* the updated segment built afresh instead of from a copy of the segment
CleanSegmentNoCopy(s, patterns) ==
    [text |-> CleanSent(s["text"], 1, patterns), original_text |-> s["text"]]

\* updated_segment = segment.copy(); then 'text' and 'original_text' are set
CleanSegment(s, patterns) ==
    [k \in DOMAIN s \cup {"original_text"} |->
        CASE k = "text"          -> CleanSent(s["text"], 1, patterns)
          [] k = "original_text" -> s["text"]
          [] OTHER               -> s[k]]

\* text.replace(f" {filler} ", " "): occurrences are found left to right and do not
\* overlap, each takes the blank before and the blank after the filler, so only a filler
\* between two other tokens goes, and the token after a removed filler cannot start the
\* next occurrence.  out holds the tokens before token i.
RECURSIVE ReplaceScan(_, _, _, _)
ReplaceScan(toks, i, filler, out) ==
    LET n == Len(filler) IN
    IF i + n > Len(toks) THEN out \o SubSeq(toks, i, Len(toks))
    ELSE IF SubSeq(toks, i, i + n - 1) = filler
         THEN ReplaceScan(toks, i + n + 1, filler, Append(out, toks[i + n]))
         ELSE ReplaceScan(toks, i + 1, filler, Append(out, toks[i]))

Replace(toks, filler) ==
    IF toks = <<>> \/ filler = <<>> THEN toks
    ELSE ReplaceScan(toks, 2, filler, <<toks[1]>>)

\* for filler in filler_words: text = text.replace(...)
RECURSIVE ReplaceAll(_, _)
ReplaceAll(toks, fw) ==
    IF fw = <<>> THEN toks ELSE ReplaceAll(Replace(toks, Head(fw)), Tail(fw))

\* the branch taken when spacy.load raised something other than OSError
FallbackSegment(s, fw) == [s EXCEPT !["text"] = ReplaceAll(@, fw)]

RemoveFillerWords(t, fw, load) ==
    IF t = <<>> THEN <<>>
    ELSE [i \in DOMAIN t |->
            IF ~HasText(t[i]) THEN t[i]
            ELSE IF load = "loaded" THEN CleanSegment(t[i], FillerPatterns(fw))
            ELSE FallbackSegment(t[i], fw)]

----------------------------------------------------------------------------
(* Python floats in the timing synthesis *)

\* A float is m * 2^e with a significand m of Precision bits; every operation gives the
\* float nearest to the exact result, ties to the even significand.  Doubles have 53
\* bits; the quotients met here have a binary expansion of period 2 (thirds), which rounds
\* the same way for every odd number of bits, so an odd Precision is kept.
Precision == 2 * HalfBits + 1

Zero == [m |-> 0, e |-> 0]

\* 2^(Precision-1) <= num / (den * 2^x) < 2^Precision
Normal(num, den, x) ==
    LET n == num * 2^(IF x < 0 THEN 0 - x ELSE 0)
        d == den * 2^(IF x > 0 THEN x ELSE 0)
    IN  2^(Precision - 1) * d <= n /\ n < 2^Precision * d

RoundRat(num, den) ==
    IF num = 0 THEN Zero
    ELSE LET x == CHOOSE y \in (0 - Precision - 4)..4 : Normal(num, den, y)
             n == num * 2^(IF x < 0 THEN 0 - x ELSE 0)
             d == den * 2^(IF x > 0 THEN x ELSE 0)
             q == n \div d
             r == n % d
             m == IF 2 * r > d \/ (2 * r = d /\ q % 2 = 1) THEN q + 1 ELSE q
         IN  IF m = 2^Precision THEN [m |-> 2^(Precision - 1), e |-> x + 1]
             ELSE [m |-> m, e |-> x]

\* an int used as a float
FloatOf(n) == RoundRat(n, 1)

\* a / b of two ints
FloatDiv(a, b) == RoundRat(a, b)

\* x * n, n an int
FloatMul(x, n) ==
    RoundRat(x.m * n * 2^(IF x.e > 0 THEN x.e ELSE 0), 2^(IF x.e < 0 THEN 0 - x.e ELSE 0))

\* x + y
FloatAdd(x, y) ==
    LET lo == IF x.e < y.e THEN x.e ELSE y.e IN
    RoundRat((x.m * 2^(x.e - lo) + y.m * 2^(y.e - lo)) * 2^(IF lo > 0 THEN lo ELSE 0),
             2^(IF lo < 0 THEN 0 - lo ELSE 0))

----------------------------------------------------------------------------
(* generate_script *)

\* segment['script_text'] = segment['text'], for a segment that has text
WithScriptText(s) ==
    IF HasText(s)
    THEN [k \in DOMAIN s \cup {"script_text"} |-> IF k = "script_text" THEN s["text"] ELSE s[k]]
    ELSE s

\* selected_content.copy() copies the list, not its records: the loop of
\* _create_direct_script writes into the records of the list it was given
SelectionAfterDirect(sel) == [i \in DOMAIN sel |-> WithScriptText(sel[i])]

CreateDirectScript(sel) ==
    [segments |-> SelectionAfterDirect(sel),
     generated_by |-> "direct_selection",
     segment_count |-> Len(sel)]

\* the band without its bounds
WithinBandStrict(d, T) == 8 * T < 10 * d /\ 10 * d < 12 * T

\* 0.8 * target_duration <= direct_duration <= 1.2 * target_duration
WithinBand(d, T) == 8 * T <= 10 * d /\ 10 * d <= 12 * T

\* len(segment.get('script_text', ''))
SpanChars(sp) == IF "script_text" \in DOMAIN sp THEN Len(sp["script_text"]) ELSE 0

RECURSIVE TotalChars(_)
TotalChars(spans) ==
    IF spans = <<>> THEN 0 ELSE SpanChars(Head(spans)) + TotalChars(Tail(spans))

TimingKeys == {"start", "end", "id"}

\* for key in ['start', 'end', 'id']: if key in direct segment: segment[key] = ...
CopyTiming(sp, d) ==
    [k \in DOMAIN sp \cup (TimingKeys \cap DOMAIN d) |->
        IF k \in TimingKeys \cap DOMAIN d THEN d[k] ELSE sp[k]]

\* the timing copied from the segment after the one at the same position
AlignSpansShifted(spans, directSegs) ==
    [i \in DOMAIN spans |->
        CopyTiming(spans[i], directSegs[IF i < Len(directSegs) THEN i + 1 ELSE i])]

\* len(refined) <= len(direct): timing copied position by position
AlignSpans(spans, directSegs) ==
    [i \in DOMAIN spans |-> CopyTiming(spans[i], directSegs[i])]

\* every span the same length, whatever its characters
RECURSIVE SynthLoopEven(_, _, _, _, _)
SynthLoopEven(spans, i, startTime, totalChars, total) ==
    IF i > Len(spans) THEN <<>>
    ELSE LET sp       == spans[i]
             duration == FloatMul(FloatDiv(1, Len(spans)), total)
             endTime  == FloatAdd(startTime, duration)
             timed    == [k \in DOMAIN sp \cup TimingKeys |->
                             CASE k = "id"    -> i - 1
                               [] k = "start" -> startTime
                               [] k = "end"   -> endTime
                               [] OTHER       -> sp[k]]
         IN  <<timed>> \o SynthLoopEven(spans, i + 1, endTime, totalChars, total)

\* the loop of lines 158-166; start_time += segment_duration is the same float addition
\* as start_time + segment_duration
RECURSIVE SynthLoop(_, _, _, _, _)
SynthLoop(spans, i, startTime, totalChars, total) ==
    IF i > Len(spans) THEN <<>>
    ELSE LET sp       == spans[i]
             duration == FloatMul(FloatDiv(SpanChars(sp), totalChars), total)
             endTime  == FloatAdd(startTime, duration)
             timed    == [k \in DOMAIN sp \cup TimingKeys |->
                             CASE k = "id"    -> i - 1
                               [] k = "start" -> startTime
                               [] k = "end"   -> endTime
                               [] OTHER       -> sp[k]]
         IN  <<timed>> \o SynthLoop(spans, i + 1, endTime, totalChars, total)

\* direct_script['segments'][0].get('start', 0) if direct_script['segments'] else 0
FirstStart(directSegs) ==
    IF directSegs # <<>> /\ "start" \in DOMAIN directSegs[1] THEN directSegs[1]["start"] ELSE 0

Refined(spans, T) ==
    [segments |-> spans,
     generated_by |-> "ai_refinement",
     segment_count |-> Len(spans),
     target_duration |-> T]

\* a reply that is not an object with a list of segments taken as one without segments
RefineScriptWithAiAnyShape(direct, T, r) ==
    IF r.kind \in {"raises", "not_json"} THEN direct
    ELSE IF Len(r.spans) <= Len(direct.segments)
    THEN Refined(AlignSpans(r.spans, direct.segments), T)
    ELSE IF TotalChars(r.spans) = 0 THEN direct
    ELSE Refined(SynthLoop(r.spans, 1, FloatOf(FirstStart(direct.segments)),
                           TotalChars(r.spans), SumDur(direct.segments)), T)

\* r.kind: "raises" (the API call raised), "not_json", "bad_shape" (JSON that is not an
\* object with a list under 'segments'), "spans" (r.spans is that list).  A division by
\* total_chars = 0 raises inside the try and ends in the except of line 177.
RefineScriptWithAi(direct, T, r) ==
    IF r.kind \in {"raises", "not_json", "bad_shape"} THEN direct
    ELSE IF Len(r.spans) <= Len(direct.segments)
    THEN Refined(AlignSpans(r.spans, direct.segments), T)
    ELSE IF TotalChars(r.spans) = 0 THEN direct
    ELSE Refined(SynthLoop(r.spans, 1, FloatOf(FirstStart(direct.segments)),
                           TotalChars(r.spans), SumDur(direct.segments)), T)

\* whether generate_script goes on to the refinement
NeedsRefinement(sel, T) == ~WithinBand(SumDur(SelectionAfterDirect(sel)), T)

GenerateScript(sel, T, r) ==
    LET direct == CreateDirectScript(sel) IN
    IF WithinBand(SumDur(direct.segments), T) THEN direct
    ELSE RefineScriptWithAi(direct, T, r)

----------------------------------------------------------------------------
(* Inputs *)

TextOf(k) == IF k = 1 THEN <<"a">> ELSE <<"a", "b">>

\* shape: dur = 0 is a segment without start/end, txt = 0 one without text
\* fully timed transcripts, and transcripts in which segments lack timing
TimedShapes == [dur : 1..MaxDur, txt : 0..2]

MixedShapes == [dur : 0..1, txt : 0..2]

RECURSIVE ShapeTotal(_)
ShapeTotal(sh) == IF sh = <<>> THEN 0 ELSE Head(sh).dur + ShapeTotal(Tail(sh))

RECURSIVE StartOf(_, _)
StartOf(sh, i) == IF i = 1 THEN 0 ELSE StartOf(sh, i - 1) + sh[i - 1].dur

Segment(id, start, dur, txt) ==
    LET keys == {"id"} \cup (IF dur > 0 THEN {"start", "end"} ELSE {})
                       \cup (IF txt > 0 THEN {"text"} ELSE {})
    IN  [k \in keys |-> CASE k = "id"    -> id
                          [] k = "start" -> start
                          [] k = "end"   -> start + dur
                          [] k = "text"  -> TextOf(txt)]

\* ids are assigned in source order, starting at 0; segments are contiguous
Build(sh) == [i \in DOMAIN sh |-> Segment(i - 1, StartOf(sh, i), sh[i].dur, sh[i].txt)]

Uniform(n, len) == [i \in 1..n |-> Segment(i - 1, (i - 1) * len, len, 1)]

\* target_duration: int = 60
DefaultTargetDuration == 60

OracleFails == [ok |-> FALSE, summary |-> {}]

Oracles == {OracleFails} \cup [ok : {TRUE}, summary : SUBSET Vocab]

\* values of the variables a run does not use
SelectIdle ==
    /\ transcript = <<>>
    /\ target = 1
    /\ result = <<>>
    /\ trace = NoTrace
    /\ oracle = OracleFails
    /\ oracleCalls = 0

DivideIdle ==
    /\ segments = <<>>
    /\ numVideos = 1
    /\ groups = <<>>
    /\ fp = "exact"

NormalizeIdle ==
    /\ fillers = <<>>
    /\ nlp = "loaded"
    /\ once = <<>>
    /\ twice = <<>>

\* the refinement oracle was not consulted
Unasked == [kind |-> "unasked", spans |-> <<>>]

NoScript == [segments |-> <<>>, generated_by |-> "none", segment_count |-> 0]

ScriptIdle ==
    /\ selection = <<>>
    /\ refiner = Unasked
    /\ script = NoScript

\* two pipeline runs at a time: two invocations of main.py, or two server processes
\* (a single server process runs process_video, which never awaits, to its end)
Runs == {1, 2}

\* base names of the input videos; two inputs in different directories can share one
Videos == {"talk.mp4", "demo.mp4"}

\* the fewest chunks of an extracted track that transcribe splits: a 16 kHz mono 16-bit
\* track above LARGE_FILE_THRESHOLD_MB = 20 lasts over 655 s, over two CHUNK_LENGTH_S
MinChunks == 3

\* num_chunks of a run's track; 0 stands for a track sent whole
ChunkCounts == {0} \cup MinChunks..MaxChunks

\* a file that does not exist
Absent == [by |-> 0, of |-> 0, part |-> 0]

NoFiles == [audio |-> [v \in Videos |-> Absent], chunk |-> [i \in 0..(MaxChunks - 1) |-> Absent]]

NoRun == [pc |-> "extract", video |-> "talk.mp4", chunks |-> 0, audio |-> 0, i |-> 0,
          heard |-> <<>>, met |-> FALSE]

RunsIdle ==
    /\ runs = [r \in Runs |-> NoRun]
    /\ files = NoFiles

\* task ids: uuid4 values, no two uploads get the same
TaskIds == 1..MaxTasks

\* an id for which upload_video has made no task
NoTask == [status |-> "none", num_videos |-> 0, videos |-> <<>>, at |-> "none"]

NoResponse == [kind |-> "none", id |-> 0, code |-> 0, videos |-> <<>>]

TasksIdle ==
    /\ tasks = [id \in TaskIds |-> NoTask]
    /\ outputs = [id \in TaskIds |-> <<>>]
    /\ response = NoResponse

----------------------------------------------------------------------------
(* Selection runs *)

Init ==
    /\ \/ /\ \E n \in 0..MaxSegs :
                \/ \E sh \in [1..n -> TimedShapes] :
                      ShapeTotal(sh) <= MaxTotalDur /\ transcript = Build(sh)
                \/ \E sh \in [1..n -> MixedShapes] : transcript = Build(sh)
          /\ target \in 1..MaxTarget
       \/ /\ transcript = Uniform(10, 10)
          /\ target = DefaultTargetDuration
    /\ pc = "ready"
    /\ result = <<>>
    /\ trace = NoTrace
    /\ oracle = OracleFails
    /\ oracleCalls = 0
    /\ DivideIdle
    /\ NormalizeIdle
    /\ ScriptIdle
    /\ RunsIdle
    /\ TasksIdle

CallSelectKeyMoments ==
    /\ pc = "ready"
    /\ \E o \in Oracles :
         LET tr == SelectKeyMoments(transcript, target, o) IN
         /\ oracle' = o
         /\ trace' = tr
         /\ result' = Returned(tr)
         /\ oracleCalls' = oracleCalls + tr.calls
    /\ pc' = "select_key_moments"
    /\ UNCHANGED <<transcript, target, divideVars, normalizeVars, scriptVars, runVars, taskVars>>

CallSelectByDuration ==
    /\ pc = "ready"
    /\ result' = SelectByDuration(transcript, 10 * target)
    /\ pc' = "select_by_duration"
    /\ UNCHANGED <<transcript, target, trace, oracle, oracleCalls, divideVars, normalizeVars, scriptVars, runVars, taskVars>>

CallSelectByTextImportance ==
    /\ pc = "ready"
    /\ \E o \in Oracles :
         /\ oracle' = o
         /\ result' = SelectByTextImportance(transcript, 10 * target, o)
    /\ oracleCalls' = oracleCalls + 1
    /\ pc' = "select_by_text_importance"
    /\ UNCHANGED <<transcript, target, trace, divideVars, normalizeVars, scriptVars, runVars, taskVars>>

Next == CallSelectKeyMoments \/ CallSelectByDuration \/ CallSelectByTextImportance

Spec == Init /\ [][Next]_vars

----------------------------------------------------------------------------
(* Partitioning runs *)

\* segment lists in any order of start, with or without timing
DivShapes == [start : 0..MaxStart, dur : 0..MaxDivDur]

BuildDiv(sh) == [i \in DOMAIN sh |-> Segment(i - 1, sh[i].start, sh[i].dur, 1)]

InitDivide ==
    /\ \/ \E n \in 0..MaxSegs : \E sh \in [1..n -> DivShapes] : segments = BuildDiv(sh)
       \/ \E n \in 1..MaxVideos, k \in 1..MaxPerGroup, len \in 1..MaxDur :
             segments = Uniform(n * k, len)
    /\ numVideos \in 1..MaxVideos
    /\ fp \in FloatOutcomes(segments, numVideos)
    /\ groups = <<>>
    /\ pc = "ready"
    /\ SelectIdle
    /\ NormalizeIdle
    /\ ScriptIdle
    /\ RunsIdle
    /\ TasksIdle

CallDivide ==
    /\ pc = "ready"
    /\ groups' = DivideSegments(segments, numVideos, fp)
    /\ pc' = "divide"
    /\ UNCHANGED <<selectVars, segments, numVideos, fp, normalizeVars, scriptVars, runVars, taskVars>>

NextDivide == CallDivide

SpecDivide == InitDivide /\ [][NextDivide]_vars

----------------------------------------------------------------------------
(* Runs on empty and untimed input *)

InitEmpty ==
    /\ transcript = <<>>
    /\ target \in 1..MaxTarget
    /\ \E n \in 0..MaxSegs : \E sh \in [1..n -> MixedShapes] : segments = Build(sh)
    /\ numVideos \in 1..MaxVideos
    /\ fp \in FloatOutcomes(segments, numVideos)
    /\ groups = <<>>
    /\ pc = "ready"
    /\ result = <<>>
    /\ trace = NoTrace
    /\ oracle = OracleFails
    /\ oracleCalls = 0
    /\ NormalizeIdle
    /\ ScriptIdle
    /\ RunsIdle
    /\ TasksIdle

NextEmpty == CallSelectKeyMoments \/ CallDivide

SpecEmpty == InitEmpty /\ [][NextEmpty]_vars

----------------------------------------------------------------------------
(* Normalization runs *)

NormTokens == {"Um", "you", "know"}

FillerChoices == {<<"um">>, <<"you">>, <<"you", "know">>}

TokenSeqs(n) == UNION {[1..k -> NormTokens] : k \in 0..n}

\* filler lists: ordered, without repetition
FillerLists ==
    {fw \in UNION {[1..k -> FillerChoices] : k \in 0..MaxFillers} :
        \A i, j \in DOMAIN fw : i # j => fw[i] # fw[j]}

\* a timed segment of one second, with the tokens as text or without text
NormSegment(i, toks, bare) ==
    IF bare THEN [id |-> i - 1, start |-> i - 1, end |-> i]
    ELSE [id |-> i - 1, start |-> i - 1, end |-> i, text |-> toks]

\* the tokens w cut into the texts of n segments; segments in bare carry no text
CutTranscript(w, n, cut, bare) ==
    [i \in 1..n |->
        NormSegment(i, SubSeq(w, (IF i = 1 THEN 0 ELSE cut[i - 1]) + 1, cut[i]), i \in bare)]

InitNormalize ==
    /\ \E w \in TokenSeqs(MaxTokens) :
          \/ \E n \in 1..MaxNormSegs : \E cut \in [1..n -> 0..Len(w)], bare \in SUBSET (1..n) :
                /\ cut[n] = Len(w)
                /\ \A i \in 1..(n - 1) : cut[i] <= cut[i + 1]
                /\ \A i \in bare : cut[i] = (IF i = 1 THEN 0 ELSE cut[i - 1])
                /\ transcript = CutTranscript(w, n, cut, bare)
          \/ transcript = <<[id |-> 0, text |-> w]>>
          \/ w = <<>> /\ transcript = <<>>
    /\ fillers \in FillerLists
    /\ nlp \in {"loaded", "failed"}
    /\ once = <<>>
    /\ twice = <<>>
    /\ pc = "ready"
    /\ target = 1
    /\ result = <<>>
    /\ trace = NoTrace
    /\ oracle = OracleFails
    /\ oracleCalls = 0
    /\ DivideIdle
    /\ ScriptIdle
    /\ RunsIdle
    /\ TasksIdle

CallRemoveFillerWords ==
    /\ pc = "ready"
    /\ once' = RemoveFillerWords(transcript, fillers, nlp)
    /\ pc' = "remove_filler_words"
    /\ UNCHANGED <<selectVars, divideVars, fillers, nlp, twice, scriptVars, runVars, taskVars>>

CallRemoveFillerWordsAgain ==
    /\ pc = "remove_filler_words"
    /\ twice' = RemoveFillerWords(once, fillers, nlp)
    /\ pc' = "remove_filler_words_again"
    /\ UNCHANGED <<selectVars, divideVars, fillers, nlp, once, scriptVars, runVars, taskVars>>

NextNormalize == CallRemoveFillerWords \/ CallRemoveFillerWordsAgain

SpecNormalize == InitNormalize /\ [][NextNormalize]_vars

----------------------------------------------------------------------------
(* Script runs *)

\* shape: dur = 0 is a segment without start/end, txt = 0 one without text
ScriptShapes == [dur : 0..MaxScriptDur, txt : 0..1]

\* start of the first segment, and gap in time and in id between selected neighbours
Offsets == {0, 1}

RECURSIVE SelStart(_, _, _)
SelStart(sh, i, off) ==
    IF i = 1 THEN off ELSE SelStart(sh, i - 1, off) + sh[i - 1].dur + off

\* a selection as select_key_moments returns it: ascending ids and starts
BuildSelection(sh, off) ==
    [i \in DOMAIN sh |-> Segment((i - 1) * (1 + off), SelStart(sh, i, off), sh[i].dur, sh[i].txt)]

\* a text of c characters
Chars(c) == [j \in 1..c |-> "x"]

\* a span object of the reply; bare: without a script_text field when it has no characters
Span(c, bare) ==
    IF c = 0 /\ bare THEN [k \in {} |-> 0] ELSE [script_text |-> Chars(c)]

RECURSIVE SumChars(_, _)
SumChars(cs, n) == IF n = 0 THEN 0 ELSE cs[n] + SumChars(cs, n - 1)

\* character counts of a reply of n spans, for a direct script of m segments
CharLists(n, m) ==
    IF n <= m THEN [1..n -> 0..1]
    ELSE {cs \in [1..n -> 0..MaxChars] : SumChars(cs, n) <= MaxChars}

Refiners(m) ==
    {[kind |-> k, spans |-> <<>>] : k \in {"raises", "not_json", "bad_shape"}}
    \cup UNION {{[kind |-> "spans", spans |-> [i \in 1..n |-> Span(cs[i], bare)]] :
                    cs \in CharLists(n, m), bare \in BOOLEAN} : n \in 0..MaxSpans}

\* durations on the bounds and in the middle of the band of the default target
BandDurations == {48, 60, 72}

InitScript ==
    /\ \/ /\ \E n \in 0..MaxScriptSegs : \E sh \in [1..n -> ScriptShapes], off \in Offsets :
                ShapeTotal(sh) <= MaxScriptDur /\ selection = BuildSelection(sh, off)
          /\ target \in 1..MaxTarget
       \/ /\ \E d \in BandDurations : selection = <<Segment(0, 0, d, 1)>>
          /\ target = DefaultTargetDuration
    /\ refiner = Unasked
    /\ script = NoScript
    /\ pc = "ready"
    /\ transcript = <<>>
    /\ result = <<>>
    /\ trace = NoTrace
    /\ oracle = OracleFails
    /\ oracleCalls = 0
    /\ DivideIdle
    /\ NormalizeIdle
    /\ RunsIdle
    /\ TasksIdle

CallGenerateScript ==
    /\ pc = "ready"
    /\ \E r \in (IF NeedsRefinement(selection, target) THEN Refiners(Len(selection))
                 ELSE {Unasked}) :
         /\ refiner' = r
         /\ script' = GenerateScript(selection, target, r)
    /\ selection' = SelectionAfterDirect(selection)
    /\ pc' = "generate_script"
    /\ UNCHANGED <<selectVars, divideVars, normalizeVars, runVars, taskVars>>

NextScript == CallGenerateScript

SpecScript == InitScript /\ [][NextScript]_vars

----------------------------------------------------------------------------
(* Concurrent pipeline runs: extract_audio and _transcribe_with_openai_chunked *)

\* A file holds [by |-> the run that wrote it, of |-> the run whose audio it is,
\* part |-> the chunk index, -1 for a whole audio track].  Run r has in runs[r]:
\* video (base name of its input), chunks (num_chunks of its audio, 0 for an audio file
\* under LARGE_FILE_THRESHOLD_MB), audio (whose audio AudioSegment.from_file loaded),
\* i (the loop index), heard (what the transcription API was sent, in order), met (it
\* read, overwrote or removed a file the other run wrote).

OtherWrote(f, r) == f.by # 0 /\ f.by # r

\* output_path = os.path.join(tempfile.gettempdir(), f"{os.path.basename(video_path)}.wav")
\* and ffmpeg ... .overwrite_output()
ExtractAudio(r) ==
    /\ runs[r].pc = "extract"
    /\ files' = [files EXCEPT !.audio[runs[r].video] = [by |-> r, of |-> r, part |-> 0 - 1]]
    /\ runs' = [runs EXCEPT ![r].pc = "transcribe",
                            ![r].met = @ \/ OtherWrote(files.audio[runs[r].video], r)]
    /\ UNCHANGED <<pc, selectVars, divideVars, normalizeVars, scriptVars, taskVars>>

\* transcribe: the size of the file at audio_path decides; a small file is sent whole,
\* a large one is loaded for chunking
Transcribe(r) ==
    /\ runs[r].pc = "transcribe"
    /\ LET f == files.audio[runs[r].video]
           n == runs[f.of].chunks
       IN  runs' = [runs EXCEPT
                ![r].pc    = IF n = 0 THEN "done" ELSE "export",
                ![r].audio = f.of,
                ![r].heard = IF n = 0 THEN <<[of |-> f.of, part |-> f.part]>> ELSE @,
                ![r].met   = @ \/ OtherWrote(f, r)]
    /\ UNCHANGED <<files, pc, selectVars, divideVars, normalizeVars, scriptVars, taskVars>>

\* temp_path = os.path.join(temp_dir, f"chunk_{i}.wav"); chunk.export(temp_path, ...)
ExportChunk(r) ==
    /\ runs[r].pc = "export"
    /\ files' = [files EXCEPT !.chunk[runs[r].i] =
                    [by |-> r, of |-> runs[r].audio, part |-> runs[r].i]]
    /\ runs' = [runs EXCEPT ![r].pc = "send",
                            ![r].met = @ \/ OtherWrote(files.chunk[runs[r].i], r)]
    /\ UNCHANGED <<pc, selectVars, divideVars, normalizeVars, scriptVars, taskVars>>

\* _transcribe_with_openai(temp_path, ...): opens the file; when it is gone the error is
\* logged at line 183 and the chunk is left out
SendChunk(r) ==
    /\ runs[r].pc = "send"
    /\ LET f == files.chunk[runs[r].i] IN
       runs' = [runs EXCEPT
                ![r].pc    = "cleanup",
                ![r].heard = IF f = Absent THEN @ ELSE Append(@, [of |-> f.of, part |-> f.part]),
                ![r].met   = @ \/ OtherWrote(f, r)]
    /\ UNCHANGED <<files, pc, selectVars, divideVars, normalizeVars, scriptVars, taskVars>>

\* finally: if os.path.exists(temp_path): os.remove(temp_path); then the next chunk
CleanUpChunk(r) ==
    /\ runs[r].pc = "cleanup"
    /\ files' = [files EXCEPT !.chunk[runs[r].i] = Absent]
    /\ runs' = [runs EXCEPT
                ![r].pc  = IF runs[r].i + 1 < runs[runs[r].audio].chunks THEN "export" ELSE "done",
                ![r].i   = @ + 1,
                ![r].met = @ \/ OtherWrote(files.chunk[runs[r].i], r)]
    /\ UNCHANGED <<pc, selectVars, divideVars, normalizeVars, scriptVars, taskVars>>

InitRuns ==
    /\ \E video \in [Runs -> Videos], chunks \in [Runs -> ChunkCounts] :
          runs = [r \in Runs |-> [NoRun EXCEPT !.video = video[r], !.chunks = chunks[r]]]
    /\ files = NoFiles
    /\ pc = "ready"
    /\ SelectIdle
    /\ DivideIdle
    /\ NormalizeIdle
    /\ ScriptIdle
    /\ TasksIdle

NextRuns ==
    \E r \in Runs :
        \/ ExtractAudio(r)
        \/ Transcribe(r)
        \/ ExportChunk(r)
        \/ SendChunk(r)
        \/ CleanUpChunk(r)

SpecRuns == InitRuns /\ [][NextRuns]_vars

----------------------------------------------------------------------------
(* The videos router: upload_video, get_status, get_results, process_video *)

\* tasks[id] holds the fields of VideoTask that the router reads and writes, and at: where
\* the background run of the task stands.  outputs[id][i] is the state of output file i
\* of the task: short_video.mp4 for a single video, short_video_<i>.mp4 otherwise.

\* the statements of process_video that can raise before the videos are made
Stages == <<"makedirs", "analyze_video", "extract_audio", "transcribe",
            "remove_filler_words", "select_key_moments">>

FileStates == {"absent", "empty", "nonempty"}

\* process_video never awaits: while a task is being processed the event loop serves no
\* request and starts no other task
LoopFree == \A id \in TaskIds : tasks[id].at \in {"none", "scheduled", "done"}

\* except Exception as e: task.status = VideoStatus.FAILED
Failed(t) == [t EXCEPT !.status = "failed", !.at = "done"]

\* num_videos outside 1..5 and a file that cannot be saved make no task
UploadVideo(id) ==
    /\ LoopFree
    /\ tasks[id].at = "none"
    /\ \E n \in 0..MaxTaskVideos, saved \in BOOLEAN :
          IF n < 1 \/ n > MaxVideos
          THEN response' = [NoResponse EXCEPT !.kind = "upload", !.code = 400] /\ UNCHANGED tasks
          ELSE IF ~saved
          THEN response' = [NoResponse EXCEPT !.kind = "upload", !.code = 500] /\ UNCHANGED tasks
          ELSE /\ tasks' = [tasks EXCEPT ![id] = [status |-> "pending", num_videos |-> n,
                                                  videos |-> <<>>, at |-> "scheduled"]]
               /\ response' = [NoResponse EXCEPT !.kind = "upload", !.id = id, !.code = 200]
    /\ pc' = "upload_video"
    /\ UNCHANGED <<outputs, selectVars, divideVars, normalizeVars, scriptVars, runVars>>

GetStatus(id) ==
    /\ LoopFree
    /\ response' = IF tasks[id].at = "none"
                   THEN [NoResponse EXCEPT !.kind = "status", !.id = id, !.code = 404]
                   ELSE [NoResponse EXCEPT !.kind = tasks[id].status, !.id = id, !.code = 200]
    /\ pc' = "get_status"
    /\ UNCHANGED <<tasks, outputs, selectVars, divideVars, normalizeVars, scriptVars, runVars>>

ResultsOf(id) ==
    IF tasks[id].at = "none"
    THEN [NoResponse EXCEPT !.kind = "results", !.id = id, !.code = 404]
    ELSE IF tasks[id].status # "completed"
    THEN [NoResponse EXCEPT !.kind = "results", !.id = id, !.code = 400]
    ELSE [kind |-> "results", id |-> id, code |-> 200, videos |-> tasks[id].videos]

GetResults(id) ==
    /\ LoopFree
    /\ response' = ResultsOf(id)
    /\ pc' = "get_results"
    /\ UNCHANGED <<tasks, outputs, selectVars, divideVars, normalizeVars, scriptVars, runVars>>

\* task.status = VideoStatus.PROCESSING
StartProcessing(id) ==
    /\ LoopFree
    /\ tasks[id].at = "scheduled"
    /\ tasks' = [tasks EXCEPT ![id].status = "processing", ![id].at = Stages[1]]
    /\ pc' = "process_video"
    /\ UNCHANGED <<outputs, response, selectVars, divideVars, normalizeVars, scriptVars, runVars>>

\* one statement of the pipeline: it returns, or it raises and the handler at line 221 runs
RunStage(id) ==
    /\ \E k \in DOMAIN Stages :
          /\ tasks[id].at = Stages[k]
          /\ \E raises \in BOOLEAN :
                tasks' = [tasks EXCEPT ![id] =
                            IF raises THEN Failed(@)
                            ELSE [@ EXCEPT !.at = IF k < Len(Stages) THEN Stages[k + 1]
                                                  ELSE "create_videos"]]
    /\ pc' = "process_video"
    /\ UNCHANGED <<outputs, response, selectVars, divideVars, normalizeVars, scriptVars, runVars>>

\* create_short_video raises to process_video, possibly after writing part of the file;
\* create_multiple_short_videos logs the error of a video and goes on to the next, and
\* raises only before the first video
CreateVideos(id) ==
    /\ tasks[id].at = "create_videos"
    /\ \E out \in [1..tasks[id].num_videos -> FileStates], raises \in BOOLEAN :
          /\ (raises /\ tasks[id].num_videos > 1) => \A i \in DOMAIN out : out[i] = "absent"
          /\ outputs' = [outputs EXCEPT ![id] = out]
          /\ tasks' = [tasks EXCEPT ![id] = IF raises THEN Failed(@) ELSE [@ EXCEPT !.at = "verify"]]
    /\ pc' = "process_video"
    /\ UNCHANGED <<response, selectVars, divideVars, normalizeVars, scriptVars, runVars>>

\* os.path.exists(full_path) and os.path.getsize(full_path) > 0
Exists(id, i) == outputs[id][i] = "nonempty"

\* the verification that counts a file of no bytes as a video
ExistingFilesAnySize(id) ==
    LET present(i) == outputs[id][i] # "absent"
    IN  SelectSeq([i \in 1..tasks[id].num_videos |-> i], present)

ExistingFiles(id) ==
    LET present(i) == Exists(id, i)
    IN  SelectSeq([i \in 1..tasks[id].num_videos |-> i], present)

VerifyFiles(id) ==
    /\ tasks[id].at = "verify"
    /\ tasks' = [tasks EXCEPT ![id] =
                    IF ExistingFiles(id) # <<>>
                    THEN [@ EXCEPT !.videos = ExistingFiles(id), !.status = "completed",
                                   !.at = "cleanup"]
                    ELSE [@ EXCEPT !.status = "failed", !.at = "cleanup"]]
    /\ pc' = "process_video"
    /\ UNCHANGED <<outputs, response, selectVars, divideVars, normalizeVars, scriptVars, runVars>>

\* if os.path.exists(task.file_path): os.remove(task.file_path), inside the outer try:
\* when os.remove raises, the handler at line 221 sets the status to failed
CleanUp(id) ==
    /\ tasks[id].at = "cleanup"
    /\ \E raises \in BOOLEAN :
          tasks' = [tasks EXCEPT ![id] = IF raises THEN Failed(@) ELSE [@ EXCEPT !.at = "done"]]
    /\ pc' = "process_video"
    /\ UNCHANGED <<outputs, response, selectVars, divideVars, normalizeVars, scriptVars, runVars>>

InitTasks ==
    /\ TasksIdle
    /\ pc = "ready"
    /\ SelectIdle
    /\ DivideIdle
    /\ NormalizeIdle
    /\ ScriptIdle
    /\ RunsIdle

NextTasks ==
    \E id \in TaskIds :
        \/ UploadVideo(id)
        \/ GetStatus(id)
        \/ GetResults(id)
        \/ StartProcessing(id)
        \/ RunStage(id)
        \/ CreateVideos(id)
        \/ VerifyFiles(id)
        \/ CleanUp(id)

SpecTasks == InitTasks /\ [][NextTasks]_vars

----------------------------------------------------------------------------
(* Properties of select_key_moments and _select_by_duration, checked under Spec *)

Selected == pc = "select_key_moments"

NoneTimed(t) == \A i \in DOMAIN t : ~HasTiming(t[i])

WithoutScore(s) == [k \in DOMAIN s \ {"score"} |-> s[k]]

\* C1: for a fully-timed transcript with total duration D > T, the returned list has total
\* duration R <= 1.4 * T, whatever the oracle outcome.
C1_DurationCeiling ==
    (Selected /\ AllTimed(transcript) /\ SumDur(transcript) > target)
        => 10 * SumDur(result) <= 14 * target

\* C2: for a non-empty transcript with total duration > 0, select_key_moments returns at
\* least one segment (stated here for the fully-timed transcripts).
C2_NeverEmpty ==
    (Selected /\ transcript # <<>> /\ AllTimed(transcript) /\ SumDur(transcript) > 0)
        => result # <<>>

C4_Unchanged ==
    (Selected /\ NoneTimed(transcript)) => result = transcript

\* C4 amended: if every segment lacks timing, an oracle failure returns the transcript
\* unchanged; an oracle success returns exactly the segments that have a text field, in
\* their original (id) order, each with its fields unchanged and a score field added.
C4_TextOnly ==
    (Selected /\ NoneTimed(transcript)) =>
        IF oracle.ok
        THEN /\ Len(result) = Len(SelectSeq(transcript, HasText))
             /\ \A i \in DOMAIN result :
                    /\ "score" \in DOMAIN result[i]
                    /\ WithoutScore(result[i]) = SelectSeq(transcript, HasText)[i]
        ELSE result = transcript

C4_Witness ==
    /\ Selected /\ NoneTimed(transcript) /\ oracle.ok
    /\ Len(transcript) = 3 /\ Len(result) = 2

\* C5: on the non-short-circuit path the returned list is in strictly ascending id order,
\* with and without the top-up pass.
C5_AscendingIds ==
    (Selected /\ trace.path \in {"merge", "top_up"}) =>
        \A i \in 1..(Len(result) - 1) : result[i]["id"] < result[i + 1]["id"]

\* the top-up pass ran and added a segment that precedes an already selected one
C5_Witness ==
    /\ Selected /\ trace.path = "top_up"
    /\ \E i \in DOMAIN trace.additional, j \in DOMAIN trace.merged :
          trace.additional[i]["id"] < trace.merged[j]["id"]

\* C10 as stated: on ten contiguous 10 s segments with target 60, _select_by_duration
\* selects exactly 6 segments.
C10_SixSegments ==
    (pc = "select_by_duration" /\ transcript = Uniform(10, 10) /\ target = 60)
        => Len(result) = 6

\* C10 amended: on that input _select_by_duration selects exactly 7 segments, ids 0..6
\* (70 s <= 78 s, the 1.3x cap; an eighth segment would make 80 s).
C10_SevenSegments ==
    (pc = "select_by_duration" /\ transcript = Uniform(10, 10) /\ target = 60)
        => (Len(result) = 7 /\ Ids(result) = 0..6)

C10_Witness ==
    pc = "select_by_duration" /\ transcript = Uniform(10, 10) /\ target = 60

----------------------------------------------------------------------------
(* Properties of _divide_segments_for_multiple_videos, checked under SpecDivide *)

Divided == pc = "divide"

RECURSIVE Flatten(_)
Flatten(gs) == IF gs = <<>> THEN <<>> ELSE Head(gs) \o Flatten(Tail(gs))

Occurrences(l, x) == Cardinality({i \in DOMAIN l : l[i] = x})

AscendingStart(l) ==
    \A i, j \in DOMAIN l : (i < j /\ HasTiming(l[i]) /\ HasTiming(l[j]))
                                => l[i]["start"] <= l[j]["start"]

\* C6: every input segment that has start and end is in the returned groups exactly once.
C6_Coverage ==
    Divided => \A i \in DOMAIN segments :
                  HasTiming(segments[i]) => Occurrences(Flatten(groups), segments[i]) = 1

C6_Witness ==
    /\ Divided /\ numVideos > 1 /\ Len(groups) >= 2
    /\ Len(segments) = 3 /\ Len(Flatten(groups)) = 2

\* C7 as stated: for every n >= 1, n = 1 included, and any input order, the concatenation
\* of the groups is in ascending start order.
C7_StartOrder ==
    Divided => AscendingStart(Flatten(groups))

\* C7 amended: for n > 1 the concatenation of the groups is in ascending start order; for
\* n = 1 the single group is the input list in its input order.
C7_StartOrderMulti ==
    Divided => IF numVideos > 1 THEN AscendingStart(Flatten(groups))
               ELSE groups = <<segments>>

C7_Witness ==
    /\ Divided /\ numVideos > 1 /\ Len(groups) >= 2
    /\ ~AscendingStart(segments)

\* C8: for n > 1 and at least n valid-timed segments, exactly n groups are returned and none
\* is empty.
C8_ExactlyNGroups ==
    (Divided /\ numVideos > 1 /\ Len(SelectSeq(segments, HasTiming)) >= numVideos)
        => (Len(groups) = numVideos /\ \A g \in DOMAIN groups : groups[g] # <<>>)

\* C9: n * k contiguous segments of equal positive length and n > 1 give exactly n groups
\* of exactly k segments each.
C9_Balanced ==
    (Divided /\ numVideos > 1
       /\ \E k \in 1..MaxPerGroup, len \in 1..MaxDur : segments = Uniform(numVideos * k, len))
        => (Len(groups) = numVideos
            /\ \A g \in DOMAIN groups : numVideos * Len(groups[g]) = Len(segments))

\* segment_groups as the loop leaves it, before the empty groups are dropped
Filled ==
    LET valid == SortByStart(SelectSeq(segments, HasTiming))
    IN  DivideLoop(valid, [g \in 1..numVideos |-> <<>>], 0, 0, SumDur(valid), numVideos, fp)

Dividing == Divided /\ numVideos > 1 /\ SelectSeq(segments, HasTiming) # <<>>

\* the group holds several segments that together exceed total / n
Over(g, total) == Len(g) > 1 /\ numVideos * SumDur(g) > total

Overfull(g) == Over(g, SumDur(segments))

\* C25: for n > 1 every group the loop fills at an index below n - 1 has a total duration
\* of at most total duration / n or holds exactly one segment; the returned groups are the
\* filled ones, so only the last returned group can hold several segments that exceed it.
C25_OnlyLastOverfull ==
    Dividing =>
        \A filled \in {Filled}, total \in {SumDur(segments)} :
            /\ \A g \in 1..(numVideos - 1) : ~Over(filled[g], total)
            /\ groups = SelectSeq(filled, NonEmpty)
            /\ \A g \in 1..(Len(groups) - 1) : ~Over(groups[g], total)

\* a group below the last holds one segment longer than total duration / n, and the last
\* group holds several segments that together exceed it
C25_Witness ==
    /\ Dividing
    /\ Overfull(Filled[numVideos])
    /\ groups[Len(groups)] = Filled[numVideos]
    /\ \E g \in 1..(Len(groups) - 1) :
          Len(groups[g]) = 1 /\ numVideos * SumDur(groups[g]) > SumDur(segments)

----------------------------------------------------------------------------
(* Further properties of the selection, checked under Spec *)

\* C13: when the oracle fails, _select_by_text_importance returns what _select_by_duration
\* returns for the same transcript and target, also where select_key_moments calls it
\* (with the target itself on the text-only path, with 1.3 times the target otherwise).
C13_FallsBackToDuration ==
    /\ (pc = "select_by_text_importance" /\ ~oracle.ok)
          => result = SelectByDuration(transcript, 10 * target)
    /\ (Selected /\ ~oracle.ok /\ trace.path = "text_only")
          => result = SelectByDuration(transcript, 10 * target)
    /\ (Selected /\ ~oracle.ok /\ trace.path \in {"merge", "top_up"})
          => trace.byText = SelectByDuration(transcript, 13 * target)

\* the oracle failed and the duration strategy chose some segments and left some out
C13_Witness ==
    /\ pc = "select_by_text_importance"
    /\ ~oracle.ok
    /\ result # <<>>
    /\ Len(result) < Len(transcript)

Merging == Selected /\ trace.path \in {"merge", "top_up"}

\* positions in the duration result of the segments the semantic result does not hold
DurationOnly == {j \in DOMAIN trace.byDuration : trace.byDuration[j]["id"] \notin Ids(trace.byText)}

Merged(j) == trace.byDuration[j]["id"] \in Ids(trace.merged)

RECURSIVE SumDurAt(_, _)
SumDurAt(l, idx) ==
    IF idx = {} THEN 0
    ELSE LET i == CHOOSE x \in idx : TRUE IN Dur(l[i]) + SumDurAt(l, idx \ {i})

\* duration selected when position j of the duration result is considered: the semantic
\* result and the duration-only segments before j that were merged
SelectedBefore(j) ==
    SumDur(trace.byText) + SumDurAt(trace.byDuration, {i \in DurationOnly : i < j /\ Merged(i)})

\* C20: in the merge step the duration result is in ascending id order; a segment of it
\* that the semantic result does not hold is merged if and only if the duration selected
\* when it is considered plus its own is at most 1.4 times the target; every segment of
\* the semantic result is kept.
C20_MergeRule ==
    Merging =>
        /\ \A i, j \in DOMAIN trace.byDuration :
              i < j => trace.byDuration[i]["id"] < trace.byDuration[j]["id"]
        /\ \A j \in DurationOnly :
              Merged(j) <=> 10 * (SelectedBefore(j) + Dur(trace.byDuration[j])) <= 14 * target
        /\ \A i \in DOMAIN trace.byText :
              \E k \in DOMAIN trace.merged : trace.merged[k] = trace.byText[i]

\* one duration-only segment was merged and another was refused
C20_Witness ==
    /\ Merging
    /\ trace.byText # <<>>
    /\ \E j \in DurationOnly : Merged(j)
    /\ \E j \in DurationOnly : ~Merged(j)

\* C21: on the merging path the top-up pass runs if and only if the merged duration R
\* satisfies 0 < R < 0.8 * target; every segment it adds is a segment of the transcript
\* with start and end whose id was not selected, and the duration it adds is at most
\* 1.4 * (target - R).
C21_TopUp ==
    Merging =>
        /\ trace.path = "top_up"
              <=> (0 < SumDur(trace.merged) /\ 10 * SumDur(trace.merged) < 8 * target)
        /\ trace.path = "top_up" =>
              /\ \A i \in DOMAIN trace.additional :
                    /\ HasTiming(trace.additional[i])
                    /\ trace.additional[i]["id"] \notin Ids(trace.merged)
                    /\ \E j \in DOMAIN transcript : transcript[j] = trace.additional[i]
              /\ 10 * SumDur(trace.additional) <= 14 * (target - SumDur(trace.merged))
        /\ trace.path = "merge" => trace.additional = <<>>

\* the top-up pass ran, added a segment and refused another
C21_Witness ==
    /\ Selected /\ trace.path = "top_up"
    /\ trace.additional # <<>>
    /\ Len(result) < Len(transcript)

Semantic == pc = "select_by_text_importance" /\ oracle.ok

Candidates == {i \in DOMAIN transcript : HasText(transcript[i]) /\ HasTiming(transcript[i])}

Score(i) == ScoreOf(transcript[i], oracle.summary)

\* segment i is considered before segment j: higher score, or equal score and smaller id
ConsideredBefore(i, j) ==
    \/ ScoreGreater(Score(i), Score(j))
    \/ /\ ~ScoreGreater(Score(j), Score(i))
       /\ transcript[i]["id"] < transcript[j]["id"]

Chosen(i) == transcript[i]["id"] \in Ids(result)

\* the budget used when segment j is considered
UsedBefore(j) ==
    SumDurAt(transcript, {i \in Candidates : ConsideredBefore(i, j) /\ Chosen(i)})

EqualScore(i, j) == ~ScoreGreater(Score(i), Score(j)) /\ ~ScoreGreater(Score(j), Score(i))

\* C22: the semantic strategy considers the segments in descending score order and, among
\* equal scores, in ascending id order: a timed segment is selected if and only if the
\* duration of the selected segments considered before it, plus its own, is within 1.2
\* times the target; so of two equal-score segments that each fit when the first of them
\* is considered but do not fit together, the smaller id is selected.
C22_ScoreThenId ==
    Semantic =>
        /\ \A j \in Candidates :
              Chosen(j) <=> 10 * (UsedBefore(j) + Dur(transcript[j])) <= 12 * target
        /\ \A i, j \in Candidates :
              (/\ i < j /\ EqualScore(i, j)
               /\ 10 * (UsedBefore(i) + Dur(transcript[i])) <= 12 * target
               /\ 10 * (UsedBefore(i) + Dur(transcript[j])) <= 12 * target
               /\ 10 * (UsedBefore(i) + Dur(transcript[i]) + Dur(transcript[j])) > 12 * target)
                  => Chosen(i)

\* two equal-score segments of equal length, of which the budget holds one: the first is
\* selected and the second is not
C22_Witness ==
    /\ Semantic
    /\ \E i, j \in Candidates :
          /\ i < j /\ EqualScore(i, j)
          /\ Dur(transcript[i]) = Dur(transcript[j])
          /\ UsedBefore(i) = 0
          /\ Chosen(i) /\ ~Chosen(j)

ByDuration == pc = "select_by_duration"

\* C23: for a transcript with positive total duration, _select_by_duration returns only
\* segments with start and end, of total duration at most 1.3 times the target, in
\* ascending id order.
C23_DurationResult ==
    (ByDuration /\ SumDur(transcript) > 0) =>
        /\ \A i \in DOMAIN result : HasTiming(result[i])
        /\ 10 * SumDur(result) <= 13 * target
        /\ \A i \in 1..(Len(result) - 1) : result[i]["id"] < result[i + 1]["id"]

\* the longest segment comes last in the transcript and is selected with a shorter one,
\* and a third segment is left out
C23_Witness ==
    /\ ByDuration /\ Len(transcript) = 3 /\ AllTimed(transcript)
    /\ Dur(transcript[3]) > Dur(transcript[1])
    /\ Ids(result) = {0, 2}
    /\ 10 * SumDur(result) > 10 * target

UniqueIds(l) == \A i, j \in DOMAIN l : i # j => l[i]["id"] # l[j]["id"]

\* C26: the list select_key_moments returns holds no id twice, and each of its segments is
\* a segment of the transcript with the same id, start, end and text (the semantic
\* strategy adds a score), on the text-only, short-circuit, merge and top-up paths.
C26_NoDuplicates ==
    (Selected /\ UniqueIds(transcript)) =>
        /\ UniqueIds(result)
        /\ \A i \in DOMAIN result :
              \E k \in DOMAIN transcript : WithoutScore(result[i]) = transcript[k]

\* the result holds a scored segment of the semantic strategy and a segment added by the
\* top-up pass, and a segment of the transcript is left out
C26_Witness ==
    /\ Selected /\ trace.path = "top_up"
    /\ trace.byText # <<>>
    /\ trace.additional # <<>>
    /\ Len(result) = Len(trace.byText) + Len(trace.additional)
    /\ Len(result) < Len(transcript)

\* segment i is considered before segment j by the duration strategy: longer, or of the
\* same length and earlier in the transcript
LongerFirst(i, j) ==
    \/ Dur(transcript[i]) > Dur(transcript[j])
    \/ Dur(transcript[i]) = Dur(transcript[j]) /\ i < j

InMerged(i) == transcript[i]["id"] \in Ids(trace.merged)

TakenBefore(j) ==
    SumDurAt(transcript, {i \in DOMAIN transcript : LongerFirst(i, j) /\ InMerged(i)})

\* C27: when the oracle fails on the merging path, the semantic result and the duration
\* result are the same list, the merge adds nothing, and the selection before the top-up
\* is _select_by_duration(transcript, 1.3 * target): the longest-first greedy selection
\* under a cap of 1.69 times the target.
C27_OracleFailureMerge ==
    (Merging /\ ~oracle.ok) =>
        /\ trace.byText = trace.byDuration
        /\ trace.merged = trace.byDuration
        /\ trace.merged = SelectByDuration(transcript, 13 * target)
        /\ \A j \in DOMAIN transcript :
              InMerged(j) <=> 100 * (TakenBefore(j) + Dur(transcript[j])) <= 169 * target

\* the selection exceeds 1.3 times the target, and a segment is left out
C27_Witness ==
    /\ Merging /\ ~oracle.ok
    /\ 10 * SumDur(trace.merged) > 13 * target
    /\ Len(trace.merged) >= 2
    /\ Len(trace.merged) < Len(transcript)

InResult(i) == \E k \in DOMAIN result : result[k] = transcript[i]

\* C28: the result of _select_by_duration is maximal under its cap: the duration of the
\* selected segments plus that of any timed segment left out exceeds 1.3 times the target.
C28_Maximal ==
    ByDuration =>
        \A i \in DOMAIN transcript :
            (HasTiming(transcript[i]) /\ ~InResult(i))
                => 10 * (SumDur(result) + Dur(transcript[i])) > 13 * target

\* a segment was skipped and a shorter one, considered after it, was selected
C28_Witness ==
    /\ ByDuration
    /\ \E i, j \in DOMAIN transcript :
          /\ HasTiming(transcript[i]) /\ HasTiming(transcript[j])
          /\ Dur(transcript[i]) > Dur(transcript[j])
          /\ ~InResult(i) /\ InResult(j)

----------------------------------------------------------------------------
(* Properties of generate_script, checked under SpecScript *)

Generated == pc = "generate_script"

\* after the call the records of the selection are the segments of the direct script
DirectSegments == selection

\* the oracle answered with spans, no more of them than the direct script has segments
Aligned ==
    Generated /\ refiner.kind = "spans" /\ Len(refiner.spans) <= Len(DirectSegments)

\* C14: when the oracle returns no more spans than the direct script has segments, the
\* refined script has those spans, and span i carries the start, end and id that direct
\* segment i has; a span whose direct segment has timing has timing.
C14_PositionalTiming ==
    Aligned =>
        /\ script.generated_by = "ai_refinement"
        /\ Len(script.segments) = Len(refiner.spans)
        /\ \A i \in DOMAIN script.segments :
              /\ \A k \in {"start", "end", "id"} :
                    k \in DOMAIN DirectSegments[i]
                        => (k \in DOMAIN script.segments[i]
                            /\ script.segments[i][k] = DirectSegments[i][k])
              /\ HasTiming(DirectSegments[i]) => HasTiming(script.segments[i])

\* fewer spans than segments, and the first span took a start other than 0
C14_Witness ==
    /\ Aligned
    /\ refiner.spans # <<>>
    /\ Len(refiner.spans) < Len(DirectSegments)
    /\ HasTiming(DirectSegments[1])
    /\ script.segments[1]["start"] = DirectSegments[1]["start"]
    /\ DirectSegments[1]["start"] > 0

\* the oracle answered with more spans than segments and the timing was synthesized
Synthesized ==
    /\ Generated
    /\ refiner.kind = "spans"
    /\ Len(refiner.spans) > Len(DirectSegments)
    /\ script.generated_by = "ai_refinement"

\* floats are compared as whole multiples of 2^(-FloatScale)
FloatScale == Precision + 4

Scaled(x) == x.m * 2^(x.e + FloatScale)

SpanLength(i) == Scaled(script.segments[i]["end"]) - Scaled(script.segments[i]["start"])

\* last end minus first start, less the sum of the direct durations
Drift ==
    Scaled(script.segments[Len(script.segments)]["end"]) - Scaled(script.segments[1]["start"])
        - SumDur(DirectSegments) * 2^FloatScale

\* (segment_chars / total_chars) * total_original_duration, as the float the code computes
Share(i) ==
    FloatMul(FloatDiv(SpanChars(refiner.spans[i]), TotalChars(refiner.spans)),
             SumDur(DirectSegments))

\* first span at the first direct start, spans end where the next starts, start <= end
Contiguous ==
    /\ Len(script.segments) = Len(refiner.spans)
    /\ (DirectSegments # <<>> /\ "start" \in DOMAIN DirectSegments[1])
          => Scaled(script.segments[1]["start"]) = DirectSegments[1]["start"] * 2^FloatScale
    /\ \A i \in 1..(Len(script.segments) - 1) :
          script.segments[i]["end"] = script.segments[i + 1]["start"]
    /\ \A i \in DOMAIN script.segments :
          Scaled(script.segments[i]["start"]) <= Scaled(script.segments[i]["end"])

\* C15, as claimed: with more spans than segments the synthesized timing starts at the
\* first direct start, is contiguous with start <= end, gives every span exactly its
\* share of characters times the total duration (the float computed for it), and spans
\* exactly the sum of the direct durations.
C15_ExactTiming ==
    Synthesized =>
        /\ Contiguous
        /\ \A i \in DOMAIN script.segments : SpanLength(i) = Scaled(Share(i))
        /\ Drift = 0

\* (k + 2) * 2^(1 - Precision) * (first start + total duration), k the number of spans
Tolerance ==
    (Len(refiner.spans) + 2) * 2^(FloatScale + 1 - Precision)
        * (FirstStart(DirectSegments) + SumDur(DirectSegments))

\* C15, amended: the timing starts at the first direct start (0 when that segment has
\* none), is contiguous with start <= end; the length of a span is its share of
\* characters times the total duration, and last end minus first start is the sum of
\* the direct durations, up to the rounding of the float operations: within (k + 2)
\* machine epsilons of the largest time, not exactly.
C15_TimingUpToRounding ==
    Synthesized =>
        /\ Contiguous
        /\ Scaled(script.segments[1]["start"]) = FirstStart(DirectSegments) * 2^FloatScale
        /\ \A i \in DOMAIN script.segments :
              Abs(SpanLength(i) * TotalChars(refiner.spans)
                  - SpanChars(refiner.spans[i]) * SumDur(DirectSegments) * 2^FloatScale)
                <= TotalChars(refiner.spans) * Tolerance
        /\ Abs(Drift) <= Tolerance

\* a synthesis from a start other than 0 whose last end misses the total by rounding
C15_Witness ==
    /\ Synthesized
    /\ FirstStart(DirectSegments) > 0
    /\ Drift # 0
    /\ \E i, j \in DOMAIN refiner.spans : SpanChars(refiner.spans[i]) > SpanChars(refiner.spans[j])

\* the refinement failed: the call raised, the reply was no JSON or no object with a list
\* of segments, or the synthesis divided by zero characters
RefinementFailed ==
    /\ Generated
    /\ \/ refiner.kind \in {"raises", "not_json", "bad_shape"}
       \/ /\ refiner.kind = "spans"
          /\ Len(refiner.spans) > Len(DirectSegments)
          /\ \A i \in DOMAIN refiner.spans : SpanChars(refiner.spans[i]) = 0

\* C16: when the refinement fails, generate_script returns the direct script: generated
\* by direct_selection, with the segments of the selection.
C16_FallsBackToDirect ==
    RefinementFailed =>
        script = [segments |-> DirectSegments,
                  generated_by |-> "direct_selection",
                  segment_count |-> Len(DirectSegments)]

\* spans without characters outnumbered the segments of a selection with text
C16_Witness ==
    /\ RefinementFailed
    /\ refiner.kind = "spans"
    /\ \E i \in DOMAIN DirectSegments : HasText(DirectSegments[i])
    /\ script.generated_by = "direct_selection"

\* C24: the refinement oracle is consulted only when the duration of the direct script is
\* below 0.8 times the target or above 1.2 times the target; with a duration in the band,
\* bounds included, the oracle is not consulted and the direct script is returned.
C24_BandSkipsOracle ==
    Generated =>
        LET d == SumDur(DirectSegments) IN
        /\ refiner # Unasked => (10 * d < 8 * target \/ 10 * d > 12 * target)
        /\ (8 * target <= 10 * d /\ 10 * d <= 12 * target) =>
              /\ refiner = Unasked
              /\ script.generated_by = "direct_selection"
              /\ script.segments = DirectSegments

\* a direct script whose duration is exactly 0.8 times, or 1.2 times, the target
C24_Witness ==
    /\ Generated
    /\ 10 * SumDur(DirectSegments) \in {8 * target, 12 * target}
    /\ refiner = Unasked
    /\ script.generated_by = "direct_selection"

\* C17: a call of generate_script leaves the list it was given, and every record in it,
\* as it was.
C17_InputUnmodified ==
    [][(pc = "ready" /\ pc' = "generate_script") => selection' = selection]_vars

----------------------------------------------------------------------------
(* Properties of concurrent runs, checked under SpecRuns *)

\* what run r sends to the transcription API when it runs alone
Alone(r) ==
    IF runs[r].chunks = 0 THEN <<[of |-> r, part |-> 0 - 1]>>
    ELSE [i \in 1..runs[r].chunks |-> [of |-> r, part |-> i - 1]]

\* C19: of two runs whose steps interleave, neither reads, overwrites or removes a
\* temporary file the other wrote, and each has transcribed, when it is done, the audio
\* it transcribes when it runs alone.
C19_NoInterference ==
    \A r \in Runs :
        /\ ~runs[r].met
        /\ runs[r].pc = "done" => runs[r].heard = Alone(r)

----------------------------------------------------------------------------
(* Properties of the videos router, checked under SpecTasks *)

StatusPath == {<<"none", "pending">>, <<"pending", "processing">>,
               <<"processing", "completed">>, <<"processing", "failed">>}

\* C29: the status of a task changes only from pending to processing and from processing
\* to completed or to failed; a completed or failed task keeps its status.
C29_StatusPath ==
    [][\A id \in TaskIds :
          tasks'[id].status # tasks[id].status
              => <<tasks[id].status, tasks'[id].status>> \in StatusPath]_vars

\* C30: get_results answers 404 for an id without a task, 400 for a task that is not
\* completed, and the video names of the task only when it is completed; a completed
\* task has a non-empty videos list, and every name in it is an output file of the task
\* that exists and is not empty, also when fewer videos than num_videos were made.
C30_ResultsOnlyCompleted ==
    [][/\ pc' = "get_results" =>
             LET id == response'.id IN
             /\ response'.code = IF tasks[id].at = "none" THEN 404
                                 ELSE IF tasks[id].status = "completed" THEN 200 ELSE 400
             /\ response'.videos = IF tasks[id].status = "completed" THEN tasks[id].videos
                                   ELSE <<>>
       /\ \A id \in TaskIds :
             tasks'[id].status = "completed" =>
                 /\ tasks'[id].videos # <<>>
                 /\ \A k \in DOMAIN tasks'[id].videos :
                       /\ tasks'[id].videos[k] \in 1..tasks'[id].num_videos
                       /\ outputs'[id][tasks'[id].videos[k]] = "nonempty"]_vars

\* the results of a completed task for which fewer videos than num_videos were made, one
\* of the missing ones being a file of no bytes
C30_Witness ==
    /\ pc = "get_results"
    /\ response.code = 200
    /\ response.videos # <<>>
    /\ Len(response.videos) < tasks[response.id].num_videos
    /\ \E i \in DOMAIN outputs[response.id] : outputs[response.id][i] = "empty"

----------------------------------------------------------------------------
(* Empty input, checked under SpecEmpty *)

\* C18: select_key_moments on an empty transcript returns an empty list; the partitioner
\* on an empty list, or for more than one video on a list without a timed segment,
\* returns exactly one group, and that group is empty.
C18_EmptyInput ==
    /\ (Selected /\ transcript = <<>>) => result = <<>>
    /\ (pc = "divide" /\ (segments = <<>> \/ (numVideos > 1 /\ NoneTimed(segments))))
          => groups = << <<>> >>

\* segments without timing were handed over for several videos
C18_Witness ==
    /\ pc = "divide"
    /\ numVideos > 1
    /\ segments # <<>>
    /\ NoneTimed(segments)
    /\ groups = << <<>> >>

----------------------------------------------------------------------------
(* Properties of remove_filler_words, checked under SpecNormalize *)

Texts(l) == [i \in {j \in DOMAIN l : HasText(l[j])} |-> l[i]["text"]]

\* C11: with the language model loaded, remove_filler_words applied to its own output
\* gives the same segment texts as the first application.
C11_Idempotent ==
    pc = "remove_filler_words_again" /\ nlp = "loaded" => Texts(twice) = Texts(once)

FrameKeys == {"id", "start", "end"}

\* out has as many segments as in, in the same order, each with the id, start and end
\* of its input segment, and the segments without text are the input segments
SameFrame(in, out) ==
    /\ Len(out) = Len(in)
    /\ \A i \in DOMAIN in :
          /\ \A k \in FrameKeys :
                /\ k \in DOMAIN out[i] <=> k \in DOMAIN in[i]
                /\ k \in DOMAIN in[i] => out[i][k] = in[i][k]
          /\ ~HasText(in[i]) => out[i] = in[i]

\* C12: a call of remove_filler_words leaves the list it was given as it was, and what
\* it returns has the same number of segments in the same order, every one with the id,
\* start and end of its input segment, the segments without text unchanged.
C12_FrameKept ==
    [][/\ (pc = "ready" /\ pc' = "remove_filler_words")
            => (transcript' = transcript /\ SameFrame(transcript, once'))
       /\ (pc = "remove_filler_words" /\ pc' = "remove_filler_words_again")
            => (transcript' = transcript /\ once' = once /\ SameFrame(once, twice'))]_vars

\* a text lost a filler next to a segment without text, all timing in place
C12_Witness ==
    /\ pc = "remove_filler_words"
    /\ \E i \in DOMAIN transcript :
          HasText(transcript[i]) /\ HasTiming(transcript[i])
          /\ Len(once[i]["text"]) < Len(transcript[i]["text"])
    /\ \E i \in DOMAIN transcript : ~HasText(transcript[i])

====
